---- MODULE Spec2Model ----
(***************************************************************************)
(* A model of bt_auto_dumper/_v2/__main__.py: the command-line entry       *)
(* point main, the config file handling (load_config, update_confg), the   *)
(* request signer make_signed_request and its two callers                  *)
(* request_commands_to_server and send_to_autovalidator.                   *)
(*                                                                         *)
(* Text is a sequence of one-character strings, file content a sequence    *)
(* of byte values, so that concatenation, case folding, the deletion of    *)
(* separators and the lossy decoding of a body are computed as the code    *)
(* computes them.                                                          *)
(***************************************************************************)
EXTENDS Integers, Sequences, FiniteSets, TLC

VARIABLES
    pc,              \* where the running call stands
    caller,          \* the function that called make_signed_request
    outcome,         \* "running", "returned" or "raised"
    exc,             \* the exception a raised call ended with
    CONFIG_DIR,      \* the environment variable, "unset" when absent
    args,            \* the parsed command line of main
    configFile,      \* $CONFIG_DIR/config.ini: absent, malformed or its parsed content
    initFile,        \* configFile at the start (history)
    prevFile,        \* configFile before the last update_confg (history)
    lastCall,        \* the last direct call of a config function (history)
    configWrites,    \* how often config.ini has been written
    loaded,          \* what load_config returned
    autovalidator_address,
    subnet_identifier,
    normalized_subnet_identifier,
    req,             \* the arguments of the running make_signed_request
    file_content,    \* the bytes make_signed_request read
    wallet,          \* the signing wallet
    clock,           \* time.time()
    zipFile,         \* the file at the archive's path: << >> or << its bytes >>
    server,          \* what the AutoValidator would answer
    response,        \* the response of the last request sent
    sent,            \* the HTTP requests transmitted, in order
    signedLog,       \* every signature computed, in order (history)
    printed,         \* what the run reported, in order
    executed,        \* the commands executed, in order
    archive,         \* the zip written by dump_and_upload, "none" before
    calls            \* direct calls of make_signed_request finished so far

vars == << pc, caller, outcome, exc, CONFIG_DIR, args, configFile, initFile,
           prevFile, lastCall, configWrites, loaded, autovalidator_address,
           subnet_identifier, normalized_subnet_identifier, req, file_content,
           wallet, clock, zipFile, server, response, sent, signedLog, printed,
           executed, archive, calls >>

(***************************************************************************)
(* Bounds of the model.                                                    *)
(***************************************************************************)
\* longest identifier enumerated character by character
MaxIdLen == 4
\* longest archive body enumerated byte by byte
MaxBodyLen == 2

(***************************************************************************)
(* Text.                                                                   *)
(***************************************************************************)
UpperCase == << "A", "B", "C", "D", "E", "F", "G", "H", "I", "J", "K", "L", "M",
                "N", "O", "P", "Q", "R", "S", "T", "U", "V", "W", "X", "Y", "Z" >>

LowerCase == << "a", "b", "c", "d", "e", "f", "g", "h", "i", "j", "k", "l", "m",
                "n", "o", "p", "q", "r", "s", "t", "u", "v", "w", "x", "y", "z" >>

\* str.lower on one character
LowerChar(c) ==
    IF \E i \in 1..Len(UpperCase) : UpperCase[i] = c
    THEN LowerCase[CHOOSE i \in 1..Len(UpperCase) : UpperCase[i] = c]
    ELSE c

\* str.lower
StrLower(s) == [i \in 1..Len(s) |-> LowerChar(s[i])]

\* the characters re.sub(r"[_\-.]", "", ...) deletes
Separators == {"_", "-", "."}

IsSeparator(c) == c \in Separators

\* re.sub(r"[_\-.]", "", s)
DeleteSeparators(s) == SelectSeq(s, LAMBDA c : ~IsSeparator(c))

\* all sequences over S of length at most n
SeqsUpTo(S, n) == UNION {[1..k -> S] : k \in 0..n}

(***************************************************************************)
(* normalize_codename and the alias table.                                 *)
(***************************************************************************)
s_computehorde == << "c", "o", "m", "p", "u", "t", "e", "h", "o", "r", "d", "e" >>
s_omron == << "o", "m", "r", "o", "n" >>
s_textprompting == << "t", "e", "x", "t", "p", "r", "o", "m", "p", "t", "i", "n", "g" >>

\* the dict, in insertion order
CODENAME_MAP ==
    << [normalized |-> s_computehorde,
        aliases |-> << << "s", "n", "1", "2" >>, << "1", "2" >>, s_computehorde >>],
       [normalized |-> s_omron,
        aliases |-> << << "s", "n", "1", "3" >>, << "1", "3" >>, s_omron,
                       << "O", "m", "r", "o", "n" >> >>],
       [normalized |-> s_textprompting,
        aliases |-> << << "s", "n", "1", "4" >>, << "1", "4" >>, s_textprompting >>] >>

\* codename_lower in map(str.lower, aliases)
InAliases(codename_lower, aliases) ==
    \E j \in 1..Len(aliases) : StrLower(aliases[j]) = codename_lower

normalize_codename(codename) ==
    LET codename_lower == StrLower(codename)
        hits == {i \in 1..Len(CODENAME_MAP) :
                    InAliases(codename_lower, CODENAME_MAP[i].aliases)}
    IN  IF hits # {}
        THEN CODENAME_MAP[CHOOSE i \in hits : \A k \in hits : i <= k].normalized
        ELSE codename

\* a slip: the case folding of line 74 left out
FilterIdentifierNoLower(identifier) == DeleteSeparators(identifier)

\* line 74 of main
FilterIdentifier(identifier) == DeleteSeparators(StrLower(identifier))

\* lines 74-75 of main
NormalizeIdentifier(identifier) == normalize_codename(FilterIdentifier(identifier))

(***************************************************************************)
(* The config file.  An optional value is << >> (absent) or << v >>.       *)
(* config.ini is absent, malformed (configparser cannot parse it) or       *)
(* parsed: whether section autovalidator exists and the raw value of each  *)
(* of its two keys, as a parser reads them.                                *)
(***************************************************************************)
NoValue == << >>

Some(v) == << v >>

\* Python's truth value of an optional string: None and "" are false
Truthy(opt) == opt # NoValue /\ opt[1] # << >>

RECURSIVE LStrip(_)
LStrip(s) == IF s # << >> /\ Head(s) = " " THEN LStrip(Tail(s)) ELSE s

RECURSIVE RStrip(_)
RStrip(s) ==
    IF s # << >> /\ s[Len(s)] = " " THEN RStrip(SubSeq(s, 1, Len(s) - 1)) ELSE s

\* the value a parser reads back from the line "key = value" config.write emits
Strip(s) == RStrip(LStrip(s))

\* value.replace("%%", "")
RECURSIVE RemoveDoubledPercent(_)
RemoveDoubledPercent(s) ==
    IF Len(s) < 2 THEN s
    ELSE IF s[1] = "%" /\ s[2] = "%" THEN RemoveDoubledPercent(SubSeq(s, 3, Len(s)))
    ELSE << s[1] >> \o RemoveDoubledPercent(Tail(s))

\* BasicInterpolation.before_set raises ValueError: a "%" that is not doubled
\* (the model's values hold no "(", so no "%(name)s" reference occurs)
BadInterpolation(value) == \E i \in 1..Len(RemoveDoubledPercent(value)) :
                              RemoveDoubledPercent(value)[i] = "%"

\* BasicInterpolation.before_get on a well-formed value: "%%" reads as "%"
RECURSIVE Interpolate(_)
Interpolate(s) ==
    IF Len(s) < 2 THEN s
    ELSE IF s[1] = "%" /\ s[2] = "%" THEN << "%" >> \o Interpolate(SubSeq(s, 3, Len(s)))
    ELSE << s[1] >> \o Interpolate(Tail(s))

AbsentFile ==
    [kind |-> "absent", section |-> FALSE,
     autovalidator_address |-> NoValue, codename |-> NoValue]

MalformedFile == [AbsentFile EXCEPT !.kind = "malformed"]

ParsedFile(section, address, codename) ==
    [kind |-> "parsed", section |-> section,
     autovalidator_address |-> address, codename |-> codename]

\* config.set("autovalidator", key, value): [exc, config]
ConfigSet(config, key, value) ==
    IF ~config.section THEN [exc |-> "NoSectionError", config |-> config]
    ELSE IF BadInterpolation(value) THEN [exc |-> "ValueError", config |-> config]
    ELSE [exc |-> "none", config |-> [config EXCEPT ![key] = Some(value)]]

\* the file config.write leaves, as the next parser reads it
ConfigWritten(config) ==
    ParsedFile(config.section,
               IF config.autovalidator_address = NoValue THEN NoValue
               ELSE Some(Strip(config.autovalidator_address[1])),
               IF config.codename = NoValue THEN NoValue
               ELSE Some(Strip(config.codename[1])))

\* a slip: the file is not read before it is rewritten
UpdateConfgStartNoRead(file) == ParsedFile(TRUE, NoValue, NoValue)

\* lines 245-254 of update_confg: the parser's content before the sets
UpdateConfgStart(file) ==
    IF file.kind = "absent" THEN ParsedFile(TRUE, NoValue, NoValue) ELSE file

\* update_confg: [exc, file, wrote]
update_confg(file, new_autovalidator_address, new_codename) ==
    IF file.kind = "malformed"
    THEN [exc |-> "RuntimeError", file |-> file, wrote |-> FALSE]
    ELSE
      LET c0 == UpdateConfgStart(file)
          r1 == IF Truthy(new_autovalidator_address)
                THEN ConfigSet(c0, "autovalidator_address", new_autovalidator_address[1])
                ELSE [exc |-> "none", config |-> c0]
          r2 == IF r1.exc = "none" /\ Truthy(new_codename)
                THEN ConfigSet(r1.config, "codename", new_codename[1])
                ELSE r1
      IN  IF r2.exc # "none"
          THEN [exc |-> r2.exc, file |-> file, wrote |-> FALSE]
          ELSE [exc |-> "none", file |-> ConfigWritten(r2.config), wrote |-> TRUE]

\* load_config: [exc, autovalidator_address, subnet_identifier]
load_config(file) ==
    LET fail(e) == [exc |-> e, autovalidator_address |-> << >>, subnet_identifier |-> << >>]
    IN  IF file.kind = "absent" THEN fail("FileNotFoundError")
        ELSE IF file.kind = "malformed" THEN fail("RuntimeError")
        ELSE IF \/ ~file.section
                \/ file.autovalidator_address = NoValue
                \/ file.codename = NoValue
        THEN fail("KeyError")
        ELSE IF \/ BadInterpolation(file.autovalidator_address[1])
                \/ BadInterpolation(file.codename[1])
        THEN fail("KeyError")
        ELSE [exc |-> "none",
              autovalidator_address |-> Interpolate(file.autovalidator_address[1]),
              subnet_identifier |-> Interpolate(file.codename[1])]

(***************************************************************************)
(* make_signed_request: the signed text.                                   *)
(***************************************************************************)
t_GET == << "G", "E", "T" >>
t_POST == << "P", "O", "S", "T" >>
t_commands_path == << "/", "a", "p", "i", "/", "v", "1", "/",
                      "c", "o", "m", "m", "a", "n", "d", "s", "/" >>
t_files_path == << "/", "a", "p", "i", "/", "v", "1", "/", "f", "i", "l", "e", "s", "/" >>
t_Hotkey == << "H", "o", "t", "k", "e", "y" >>
t_Nonce == << "N", "o", "n", "c", "e" >>
t_Note == << "N", "o", "t", "e" >>
t_Realm == << "R", "e", "a", "l", "m" >>
t_SubnetID == << "S", "u", "b", "n", "e", "t", "I", "D" >>
t_mainnet == << "m", "a", "i", "n", "n", "e", "t" >>
t_testnet == << "t", "e", "s", "t", "n", "e", "t" >>
t_devnet == << "d", "e", "v", "n", "e", "t" >>

Digits == << "0", "1", "2", "3", "4", "5", "6", "7", "8", "9" >>

\* the readings time.time() takes in the model
Clocks == {1, 2}

\* str(time.time())
NonceText(t) == << Digits[t + 1] >>

\* json.dumps of one string: quotes and backslashes escaped
RECURSIVE JsonEscape(_)
JsonEscape(s) ==
    IF s = << >> THEN << >>
    ELSE (IF Head(s) \in {"\"", "\\"} THEN << "\\", Head(s) >> ELSE << Head(s) >>)
         \o JsonEscape(Tail(s))

JsonString(s) == << "\"" >> \o JsonEscape(s) \o << "\"" >>

JsonItem(key, value) == JsonString(key) \o << ":", " " >> \o JsonString(value)

\* a slip: the nonce left out of the signed header map
JsonDumpsNoNonce(headers) ==
    << "{" >> \o JsonItem(t_Hotkey, headers.Hotkey)
    \o << ",", " " >> \o JsonItem(t_Note, headers.Note)
    \o << ",", " " >> \o JsonItem(t_Realm, headers.Realm)
    \o << ",", " " >> \o JsonItem(t_SubnetID, headers.SubnetID)
    \o << "}" >>

\* json.dumps(headers, sort_keys=True) at line 153, the keys in sorted order
JsonDumps(headers) ==
    << "{" >> \o JsonItem(t_Hotkey, headers.Hotkey)
    \o << ",", " " >> \o JsonItem(t_Nonce, headers.Nonce)
    \o << ",", " " >> \o JsonItem(t_Note, headers.Note)
    \o << ",", " " >> \o JsonItem(t_Realm, headers.Realm)
    \o << ",", " " >> \o JsonItem(t_SubnetID, headers.SubnetID)
    \o << "}" >>

\* the byte values of the model: 65 ("A") and 255, which no UTF-8 text holds
Bytes == {65, 255}

\* whether the byte decodes (the model's only bytes are ASCII or 255)
ByteIsText(b) == b < 128

ByteChar(b) == IF b = 65 THEN "A" ELSE "?"

\* file_content.decode(errors='ignore'): undecodable bytes are dropped
DecodeIgnore(bytes) ==
    LET kept == SelectSeq(bytes, ByteIsText)
    IN  [i \in 1..Len(kept) |-> ByteChar(kept[i])]

\* line 154: the text that is signed (its UTF-8 encoding, which is one-to-one)
DataToSign(method, url, headers, content) ==
    method \o url \o JsonDumps(headers) \o DecodeIgnore(content)

\* wallet.hotkey.sign(data).hex(): a function of the key and the data
Sign(w, data) == [signer |-> w.ss58, over |-> data]

\* lines 142-144: the headers as signed
SignedHeaders(r, w, t) ==
    [Note |-> r.headers.Note, SubnetID |-> r.headers.SubnetID,
     Nonce |-> NonceText(t), Hotkey |-> w.ss58, Realm |-> r.subnet_realm]

\* where make_signed_request returns to
ReturnPc(c) ==
    IF c = "send_to_autovalidator" THEN "send_report"
    ELSE IF c = "request_commands_to_server" THEN "commands_response"
    ELSE "done"

NoRequest ==
    [method |-> << >>, url |-> << >>, headers |-> [Note |-> << >>, SubnetID |-> << >>],
     file_path |-> << >>, subnet_realm |-> << >>]

NoResponse == [status_code |-> 0]

(***************************************************************************)
(* Steps.  A call that raises stops where it raised: pc keeps the place.   *)
(***************************************************************************)
Raise(e) == outcome' = "raised" /\ exc' = e /\ pc' = pc

Return == outcome' = "returned" /\ exc' = exc /\ pc' = "done"

Goto(p) == pc' = p /\ UNCHANGED << outcome, exc >>

NotLoaded == [exc |-> "not_called", autovalidator_address |-> << >>,
              subnet_identifier |-> << >>]

NoCall == [fn |-> "none", new_autovalidator_address |-> NoValue, new_codename |-> NoValue]

\* line 113
ZipFilename(id) == id \o << "-", "o", "u", "t", "p", "u", "t", ".", "z", "i", "p" >>

\* main, lines 52-61
CheckConfigDir ==
    /\ pc = "main" /\ outcome = "running"
    /\ IF CONFIG_DIR \in {"unset", ""} THEN Raise("RuntimeError") ELSE Goto("update")
    /\ UNCHANGED << caller, CONFIG_DIR, args, configFile, initFile, prevFile, lastCall,
                    configWrites, loaded, autovalidator_address, subnet_identifier,
                    normalized_subnet_identifier, req, file_content, wallet, clock,
                    zipFile, server, response, sent, signedLog, printed, executed,
                    archive, calls >>

\* main, lines 64-70
UpdateConfig ==
    /\ pc = "update" /\ outcome = "running"
    /\ IF Truthy(args.set_autovalidator_address) \/ Truthy(args.set_codename)
       THEN LET r == update_confg(configFile, args.set_autovalidator_address,
                                  args.set_codename)
            IN  /\ prevFile' = configFile
                /\ configFile' = r.file
                /\ configWrites' = configWrites + (IF r.wrote THEN 1 ELSE 0)
                /\ IF r.exc # "none"
                   THEN Raise(r.exc) /\ printed' = printed
                   ELSE Goto("resolve") /\ printed' = Append(printed, "config_updated")
       ELSE Goto("resolve") /\ UNCHANGED << prevFile, configFile, configWrites, printed >>
    /\ UNCHANGED << caller, CONFIG_DIR, args, initFile, lastCall, loaded,
                    autovalidator_address, subnet_identifier,
                    normalized_subnet_identifier, req, file_content, wallet, clock,
                    zipFile, server, response, sent, signedLog, executed, archive,
                    calls >>

\* main, lines 72-73
ResolveConfig ==
    /\ pc = "resolve" /\ outcome = "running"
    /\ IF args.subnet_identifier = << >> \/ args.autovalidator_address = << >>
       THEN LET r == load_config(configFile)
            IN  /\ loaded' = r
                /\ IF r.exc # "none"
                   THEN Raise(r.exc)
                        /\ UNCHANGED << autovalidator_address, subnet_identifier >>
                   ELSE /\ Goto("normalize")
                        /\ autovalidator_address' = r.autovalidator_address
                        /\ subnet_identifier' = r.subnet_identifier
       ELSE /\ Goto("normalize")
            /\ loaded' = loaded
            /\ autovalidator_address' = args.autovalidator_address
            /\ subnet_identifier' = args.subnet_identifier
    /\ UNCHANGED << caller, CONFIG_DIR, args, configFile, initFile, prevFile, lastCall,
                    configWrites, normalized_subnet_identifier, req, file_content,
                    wallet, clock, zipFile, server, response, sent, signedLog, printed,
                    executed, archive, calls >>

\* main, lines 74-77
Normalize ==
    /\ pc = "normalize" /\ outcome = "running"
    /\ normalized_subnet_identifier' = NormalizeIdentifier(subnet_identifier)
    /\ Goto("dump_and_upload")
    /\ UNCHANGED << caller, CONFIG_DIR, args, configFile, initFile, prevFile, lastCall,
                    configWrites, loaded, autovalidator_address, subnet_identifier,
                    req, file_content, wallet, clock, zipFile, server, response, sent,
                    signedLog, printed, executed, archive, calls >>

\* dump_and_upload line 99 and request_commands_to_server lines 285-290
RequestCommands ==
    /\ pc = "dump_and_upload" /\ outcome = "running"
    /\ req' = [method |-> t_GET,
               url |-> autovalidator_address \o t_commands_path,
               headers |-> [Note |-> << >>, SubnetID |-> normalized_subnet_identifier],
               file_path |-> << >>,
               subnet_realm |-> args.subnet_realm]
    /\ caller' = "request_commands_to_server"
    /\ Goto("make_signed_request")
    /\ UNCHANGED << CONFIG_DIR, args, configFile, initFile, prevFile, lastCall,
                    configWrites, loaded, autovalidator_address, subnet_identifier,
                    normalized_subnet_identifier, file_content, wallet, clock, zipFile,
                    server, response, sent, signedLog, printed, executed, archive,
                    calls >>

\* send_to_autovalidator, lines 183-189
SendToAutovalidator ==
    /\ pc = "send_to_autovalidator" /\ outcome = "running"
    /\ req' = [method |-> t_POST,
               url |-> autovalidator_address \o t_files_path,
               headers |-> [Note |-> args.note, SubnetID |-> normalized_subnet_identifier],
               file_path |-> ZipFilename(normalized_subnet_identifier),
               subnet_realm |-> args.subnet_realm]
    /\ caller' = "send_to_autovalidator"
    /\ Goto("make_signed_request")
    /\ UNCHANGED << CONFIG_DIR, args, configFile, initFile, prevFile, lastCall,
                    configWrites, loaded, autovalidator_address, subnet_identifier,
                    normalized_subnet_identifier, file_content, wallet, clock, zipFile,
                    server, response, sent, signedLog, printed, executed, archive,
                    calls >>

\* make_signed_request, lines 142-158
SignRequest ==
    /\ pc = "make_signed_request" /\ outcome = "running"
    /\ IF ~wallet.ok
       THEN Raise("KeyFileError") /\ UNCHANGED << file_content, signedLog >>
       ELSE IF req.file_path # << >> /\ zipFile = NoValue
       THEN Raise("FileNotFoundError") /\ UNCHANGED << file_content, signedLog >>
       ELSE LET content == IF req.file_path # << >> THEN zipFile[1] ELSE << >>
                headers == SignedHeaders(req, wallet, clock)
                data == DataToSign(req.method, req.url, headers, content)
            IN  /\ file_content' = content
                /\ signedLog' = Append(signedLog,
                       [method |-> req.method, url |-> req.url, headers |-> headers,
                        body |-> content, data_to_sign |-> data,
                        Signature |-> Sign(wallet, data)])
                /\ Goto("transmit")
    /\ UNCHANGED << caller, CONFIG_DIR, args, configFile, initFile, prevFile, lastCall,
                    configWrites, loaded, autovalidator_address, subnet_identifier,
                    normalized_subnet_identifier, req, wallet, clock, zipFile, server,
                    response, sent, printed, executed, archive, calls >>

\* make_signed_request, line 160: files is bound only when file_path is not empty
\* (line 147), so the call of request_commands_to_server, which passes "", raises
\* here; lines 291-299 and 101-117, which follow its return, are never reached
\* and have no step: executed and archive keep their initial values.
Transmit ==
    /\ pc = "transmit" /\ outcome = "running"
    /\ IF req.file_path = << >>
       THEN Raise("UnboundLocalError") /\ UNCHANGED << sent, response >>
       ELSE LET s == signedLog[Len(signedLog)]
                status == IF req.method = t_GET THEN server.get_status
                          ELSE server.post_status
            IN  /\ sent' = Append(sent,
                       [method |-> s.method, url |-> s.url, headers |-> s.headers,
                        Signature |-> s.Signature, body |-> file_content,
                        signed_over |-> s.data_to_sign])
                /\ IF ~server.reachable
                   THEN Raise("ConnectionError") /\ response' = response
                   ELSE /\ response' = [status_code |-> status]
                        /\ IF caller = "direct" THEN Return ELSE Goto(ReturnPc(caller))
    /\ UNCHANGED << caller, CONFIG_DIR, args, configFile, initFile, prevFile, lastCall,
                    configWrites, loaded, autovalidator_address, subnet_identifier,
                    normalized_subnet_identifier, req, file_content, wallet, clock,
                    zipFile, server, signedLog, printed, executed, archive, calls >>

\* a slip: every 2xx status taken for 201
UploadReportAny2xx(status) ==
    IF status \in {200, 201} THEN "uploaded_and_created" ELSE "failed_to_upload"

\* lines 190-196: what send_to_autovalidator prints for a status
UploadReport(status) ==
    IF status = 201 THEN "uploaded_and_created"
    ELSE IF status = 200 THEN "request_succeeded"
    ELSE "failed_to_upload"

\* send_to_autovalidator, lines 190-196
SendReport ==
    /\ pc = "send_report" /\ outcome = "running"
    /\ printed' = Append(printed, UploadReport(response.status_code))
    /\ Return
    /\ UNCHANGED << caller, CONFIG_DIR, args, configFile, initFile, prevFile, lastCall,
                    configWrites, loaded, autovalidator_address, subnet_identifier,
                    normalized_subnet_identifier, req, file_content, wallet, clock,
                    zipFile, server, response, sent, signedLog, executed, archive,
                    calls >>

(***************************************************************************)
(* Direct calls of update_confg and load_config on a persistent file.      *)
(***************************************************************************)
\* values a parsed file holds
FileValues == {<< "a" >>, << "%" >>}

\* values a caller passes: None, "", plain, with a lone "%", with "%%", with a
\* leading blank
NewValues == {NoValue, Some(<< >>), Some(<< "c" >>), Some(<< "%" >>),
              Some(<< "%", "%" >>), Some(<< " ", "c" >>)}

OptFileValues == {NoValue} \cup {Some(v) : v \in FileValues}

ConfigFiles ==
    {AbsentFile, MalformedFile}
    \cup {ParsedFile(TRUE, a, c) : a \in OptFileValues, c \in OptFileValues}
    \cup {ParsedFile(FALSE, NoValue, NoValue)}

\* update_confg called as main calls it: with at least one value to set (line 64)
CallUpdateConfg ==
    /\ pc = "idle"
    /\ \E a \in NewValues, c \in NewValues :
          /\ Truthy(a) \/ Truthy(c)
          /\ LET r == update_confg(configFile, a, c)
             IN  /\ prevFile' = configFile
                 /\ configFile' = r.file
                 /\ configWrites' = IF r.wrote THEN 1 ELSE 0
                 /\ outcome' = IF r.exc = "none" THEN "returned" ELSE "raised"
                 /\ exc' = r.exc
                 /\ loaded' = NotLoaded
                 /\ lastCall' = [fn |-> "update_confg", new_autovalidator_address |-> a,
                                 new_codename |-> c]
    /\ UNCHANGED << pc, caller, CONFIG_DIR, args, initFile,
                    autovalidator_address, subnet_identifier,
                    normalized_subnet_identifier, req, file_content, wallet, clock,
                    zipFile, server, response, sent, signedLog, printed, executed,
                    archive, calls >>

CallLoadConfig ==
    /\ pc = "idle"
    /\ LET r == load_config(configFile)
       IN  /\ loaded' = r
           /\ outcome' = IF r.exc = "none" THEN "returned" ELSE "raised"
           /\ exc' = r.exc
           /\ lastCall' = [NoCall EXCEPT !.fn = "load_config"]
    /\ UNCHANGED << pc, caller, CONFIG_DIR, args, configFile, initFile, prevFile,
                    configWrites, autovalidator_address, subnet_identifier,
                    normalized_subnet_identifier, req, file_content, wallet, clock,
                    zipFile, server, response, sent, signedLog, printed, executed,
                    archive, calls >>

(***************************************************************************)
(* Initial states.                                                         *)
(***************************************************************************)
Realms == {t_mainnet, t_testnet, t_devnet}

TheWallet == [ok |-> TRUE, ss58 |-> << "5", "F" >>]

OtherWallet == [ok |-> TRUE, ss58 |-> << "5", "G" >>]

NoArgs == [note |-> << >>, subnet_identifier |-> << >>, autovalidator_address |-> << >>,
           subnet_realm |-> t_mainnet, set_autovalidator_address |-> NoValue,
           set_codename |-> NoValue]

\* commands as the server lists them, each with what running it would give
cmd_echo_A == [text |-> << "e", "c", "h", "o", " ", "A" >>, stdout |-> << "A", "\n" >>,
               returncode |-> 0]
cmd_echo_B == [text |-> << "e", "c", "h", "o", " ", "B" >>, stdout |-> << "B", "\n" >>,
               returncode |-> 0]
cmd_false == [text |-> << "f", "a", "l", "s", "e" >>, stdout |-> << >>, returncode |-> 1]

CommandLists == {<< >>, << cmd_echo_A, cmd_echo_B >>, << cmd_false, cmd_echo_A >>}

Bodies == SeqsUpTo(Bytes, MaxBodyLen)

QuietServer == [reachable |-> TRUE, get_status |-> 200, commands |-> << >>,
                post_status |-> 201]

\* the variables a run starts with, whatever is run
InitRun ==
    /\ outcome = "running" /\ exc = "none" /\ caller = "none"
    /\ prevFile = configFile /\ initFile = configFile
    /\ lastCall = NoCall /\ configWrites = 0 /\ loaded = NotLoaded
    /\ req = NoRequest /\ file_content = << >> /\ response = NoResponse
    /\ sent = << >> /\ signedLog = << >> /\ printed = << >>
    /\ executed = << >> /\ archive = NoValue /\ calls = 0

\* a run of main
Init ==
    /\ pc = "main"
    /\ CONFIG_DIR \in {"unset", "", "~/.config"}
    /\ configFile \in {AbsentFile, MalformedFile, ParsedFile(FALSE, NoValue, NoValue)}
           \cup {ParsedFile(TRUE, a, c) :
                    a \in {NoValue, Some(<< "h" >>)},
                    c \in {NoValue, Some(<< "S", "N", "-", "1", "3" >>), Some(<< "%" >>)}}
    /\ args \in [note : {<< >>, << "n" >>},
                 subnet_identifier : {<< >>, << "C", "o", "m", "p", "u", "t", "e", "_",
                                               "H", "o", "r", "d", "e" >>, << "x", ".", "y" >>},
                 autovalidator_address : {<< >>, << "g" >>},
                 subnet_realm : {t_mainnet, t_testnet},
                 set_autovalidator_address : {NoValue, Some(<< "h" >>), Some(<< "%" >>)},
                 set_codename : {NoValue, Some(<< "1", "4" >>)}]
    /\ wallet \in {TheWallet, [TheWallet EXCEPT !.ok = FALSE]}
    /\ clock \in Clocks
    /\ zipFile = NoValue
    /\ server \in [reachable : {TRUE}, get_status : {200, 404, 500},
                   commands : CommandLists, post_status : {201}]
    /\ autovalidator_address = << >> /\ subnet_identifier = << >>
    /\ normalized_subnet_identifier = << >>
    /\ InitRun

Next ==
    \/ CheckConfigDir
    \/ UpdateConfig
    \/ ResolveConfig
    \/ Normalize
    \/ RequestCommands
    \/ SignRequest
    \/ Transmit

Spec == Init /\ [][Next]_vars

\* the characters identifiers are enumerated over
IdAlphabet == {"s", "N", "1", "2", "3", "_", "-", "."}

Identifiers ==
    SeqsUpTo(IdAlphabet, MaxIdLen)
    \cup {<< "C", "o", "m", "p", "u", "t", "e", "_", "H", "o", "r", "d", "e" >>,
          << "O", "M", "R", "O", "N" >>, << "o", ".", "m", "-", "r", "_", "o", "n" >>,
          << "T", "e", "x", "t", "-", "P", "r", "o", "m", "p", "t", "i", "n", "g" >>,
          << "S", "n", "_", "1", "4" >>, << "1", ".", "4" >>, << "o", "m", "r", "o" >>,
          << "X", "-", "y" >>}

\* runs of main over the identifiers, the address given and the config left alone
InitNorm ==
    /\ pc = "main"
    /\ CONFIG_DIR = "~/.config"
    /\ configFile = AbsentFile
    /\ args \in [note : {<< >>}, subnet_identifier : Identifiers \ {<< >>},
                 autovalidator_address : {<< "g" >>}, subnet_realm : {t_mainnet},
                 set_autovalidator_address : {NoValue}, set_codename : {NoValue}]
    /\ wallet = TheWallet
    /\ clock = 1
    /\ zipFile = NoValue
    /\ server = QuietServer
    /\ autovalidator_address = << >> /\ subnet_identifier = << >>
    /\ normalized_subnet_identifier = << >>
    /\ InitRun

SpecNorm == InitNorm /\ [][Next]_vars

\* a call of send_to_autovalidator
InitSend ==
    /\ pc = "send_to_autovalidator"
    /\ CONFIG_DIR = "~/.config"
    /\ configFile = AbsentFile
    /\ args \in [note : {<< >>, << "n" >>}, subnet_identifier : {<< >>},
                 autovalidator_address : {<< >>}, subnet_realm : Realms,
                 set_autovalidator_address : {NoValue}, set_codename : {NoValue}]
    /\ wallet \in {TheWallet, [TheWallet EXCEPT !.ok = FALSE]}
    /\ clock \in Clocks
    /\ zipFile \in {NoValue} \cup {Some(b) : b \in Bodies}
    /\ server \in [reachable : BOOLEAN, get_status : {200},
                   commands : {<< >>}, post_status : {200, 201, 204, 404, 500}]
    /\ autovalidator_address \in {<< "g" >>, << "h" >>}
    /\ subnet_identifier = << >>
    /\ normalized_subnet_identifier \in {s_omron, << "x" >>}
    /\ InitRun

NextSend ==
    \/ SendToAutovalidator
    \/ SignRequest
    \/ Transmit
    \/ SendReport

SpecSend == InitSend /\ [][NextSend]_vars

\* the calls of make_signed_request the model makes
SignRequests ==
    [method : {t_GET, t_POST}, url : {<< "g" >> \o t_files_path},
     headers : [Note : {<< >>, << "n" >>}, SubnetID : {s_omron}],
     file_path : {<< >>, ZipFilename(s_omron)}, subnet_realm : {t_mainnet}]

\* the file a call reads: none when it names none
SignFiles(r) == IF r.file_path = << >> THEN {NoValue} ELSE {Some(b) : b \in Bodies}

\* a first direct call of make_signed_request
InitSign ==
    /\ pc = "make_signed_request"
    /\ CONFIG_DIR = "~/.config"
    /\ configFile = AbsentFile
    /\ args = NoArgs
    /\ wallet \in {TheWallet, OtherWallet}
    /\ clock \in Clocks
    /\ req \in SignRequests
    /\ zipFile \in SignFiles(req)
    /\ server = QuietServer
    /\ autovalidator_address = << >> /\ subnet_identifier = << >>
    /\ normalized_subnet_identifier = << >>
    /\ outcome = "running" /\ exc = "none" /\ caller = "direct"
    /\ prevFile = configFile /\ initFile = configFile
    /\ lastCall = NoCall /\ configWrites = 0 /\ loaded = NotLoaded
    /\ file_content = << >> /\ response = NoResponse
    /\ sent = << >> /\ signedLog = << >> /\ printed = << >>
    /\ executed = << >> /\ archive = NoValue /\ calls = 0

\* a second direct call, once the first has ended: another run, at any clock
NextCall ==
    /\ outcome # "running" /\ calls = 0
    /\ calls' = 1
    /\ pc' = "make_signed_request" /\ outcome' = "running" /\ exc' = "none"
    /\ req' \in SignRequests
    /\ zipFile' \in SignFiles(req')
    /\ clock' \in Clocks
    /\ wallet' \in {TheWallet, OtherWallet}
    /\ UNCHANGED << caller, CONFIG_DIR, args, configFile, initFile, prevFile, lastCall,
                    configWrites, loaded, autovalidator_address, subnet_identifier,
                    normalized_subnet_identifier, file_content, server, response, sent,
                    signedLog, printed, executed, archive >>

NextSign ==
    \/ SignRequest
    \/ Transmit
    \/ NextCall

SpecSign == InitSign /\ [][NextSign]_vars

\* calls of the two config functions on any config file
InitConfig ==
    /\ pc = "idle"
    /\ CONFIG_DIR = "~/.config"
    /\ configFile \in ConfigFiles
    /\ args = NoArgs
    /\ wallet = TheWallet
    /\ clock = 1
    /\ zipFile = NoValue
    /\ server = QuietServer
    /\ autovalidator_address = << >> /\ subnet_identifier = << >>
    /\ normalized_subnet_identifier = << >>
    /\ InitRun

NextConfig ==
    \/ CallUpdateConfg
    \/ CallLoadConfig

SpecConfig == InitConfig /\ [][NextConfig]_vars

(***************************************************************************)
(* The claims.                                                             *)
(***************************************************************************)
\* the run of main has asked for the command list and has ended
CommandRunEnded ==
    outcome # "running" /\ caller = "request_commands_to_server" /\ wallet.ok

NoPostSent == \A i \in 1..Len(sent) : sent[i].method # t_POST

\* C1: when the command-list request is answered with a status other than 200,
\* dump_and_upload gets an empty list, reports it and returns normally, with no
\* command run, no archive written and no POST to /api/v1/files/.
C1_NonOkGivesEmptyListAndReturn ==
    (CommandRunEnded /\ server.get_status # 200)
    => /\ outcome = "returned"
       /\ \E i \in 1..Len(printed) : printed[i] = "subnet_not_found"
       /\ executed = << >>
       /\ archive = NoValue
       /\ NoPostSent

\* an update of one key only: which key is kept, which is set
OneKeyUpdate(kept, set) ==
    /\ lastCall.fn = "update_confg"
    /\ prevFile.kind = "parsed" /\ prevFile.section
    /\ prevFile[kept] # NoValue
    /\ Truthy(lastCall["new_" \o set])
    /\ ~Truthy(lastCall["new_" \o kept])

\* C2 as stated: an update_confg call that supplies only the other key completes,
\* leaves the key the file already held exactly as it was, and sets the supplied
\* key to the new value.
C2_OneKeyUpdateCompletes ==
    \A k \in {<< "codename", "autovalidator_address" >>,
              << "autovalidator_address", "codename" >>} :
        OneKeyUpdate(k[1], k[2])
        => /\ outcome = "returned"
           /\ configFile[k[1]] = prevFile[k[1]]
           /\ configFile[k[2]] = lastCall["new_" \o k[2]]

\* C2, amended: such a call never changes the key the file already held; when the
\* new value has no lone "%" it completes and the supplied key holds the new value
\* without its surrounding blanks; otherwise it raises ValueError and the file is
\* as it was.
C2_OneKeyUpdateKeepsOther ==
    \A k \in {<< "codename", "autovalidator_address" >>,
              << "autovalidator_address", "codename" >>} :
        OneKeyUpdate(k[1], k[2])
        => /\ configFile[k[1]] = prevFile[k[1]]
           /\ IF BadInterpolation(lastCall["new_" \o k[2]][1])
              THEN outcome = "raised" /\ exc = "ValueError" /\ configFile = prevFile
              ELSE /\ outcome = "returned"
                   /\ configFile.kind = "parsed"
                   /\ configFile[k[2]] = Some(Strip(lastCall["new_" \o k[2]][1]))

C2_Witness ==
    /\ OneKeyUpdate("codename", "autovalidator_address")
    /\ prevFile.autovalidator_address = NoValue
    /\ outcome = "returned"
    /\ configFile.codename = Some(<< "a" >>)
    /\ configFile.autovalidator_address = Some(<< "c" >>)

HasBothKeys(file) ==
    /\ file.kind = "parsed" /\ file.section
    /\ file.autovalidator_address # NoValue
    /\ file.codename # NoValue

\* C3: starting from no config file or from one holding both keys, after any
\* sequence of update_confg calls the config file, if present, holds both
\* autovalidator_address and codename in section autovalidator.
C3_FilePresentHasBothKeys ==
    (initFile.kind = "absent" \/ HasBothKeys(initFile))
    => (configFile.kind # "absent" => HasBothKeys(configFile))

\* two signed requests agree in all that the caller and the key fix
SameInputs(a, b) ==
    /\ a.method = b.method /\ a.url = b.url /\ a.body = b.body
    /\ a.headers.Note = b.headers.Note
    /\ a.headers.SubnetID = b.headers.SubnetID
    /\ a.headers.Realm = b.headers.Realm
    /\ a.headers.Hotkey = b.headers.Hotkey

\* C4: two requests sent that differ in a transmitted header value or in a body
\* byte are signed over different data.
C4_SentRequestsSignedApart ==
    \A i, j \in 1..Len(sent) :
        (sent[i].headers # sent[j].headers \/ sent[i].body # sent[j].body)
        => sent[i].signed_over # sent[j].signed_over

RECURSIVE LowerSeparatorFree(_)
LowerSeparatorFree(s) ==
    IF s = << >> THEN << >>
    ELSE IF Head(s) \in {"_", "-", "."} THEN LowerSeparatorFree(Tail(s))
    ELSE << LowerChar(Head(s)) >> \o LowerSeparatorFree(Tail(s))

\* the entries of the alias table that list the form, whatever the case
OwnersOf(form) ==
    {i \in 1..Len(CODENAME_MAP) :
        \E j \in 1..Len(CODENAME_MAP[i].aliases) :
            StrLower(CODENAME_MAP[i].aliases[j]) = StrLower(form)}

Normalized == pc \notin {"main", "update", "resolve", "normalize"}

\* C6: main's normalization takes the identifier to its lowercase separator-free
\* form and, when that form is an alias of the table, to the canonical codename
\* owning the alias; an identifier matching no alias gives the form itself, and
\* normalizing the result again changes nothing.
C6_NormalizationResolvesAliases ==
    Normalized
    => LET form == LowerSeparatorFree(subnet_identifier)
           owners == OwnersOf(form)
       IN  /\ \A i \in 1..Len(form) :
                 form[i] \notin Separators /\ LowerChar(form[i]) = form[i]
           /\ Cardinality(owners) <= 1
           /\ \A i \in owners :
                 normalized_subnet_identifier = CODENAME_MAP[i].normalized
           /\ owners = {} => normalized_subnet_identifier = form
           /\ NormalizeIdentifier(normalized_subnet_identifier)
                 = normalized_subnet_identifier

C6_Witness ==
    /\ Normalized
    /\ subnet_identifier = << "C", "o", "m", "p", "u", "t", "e", "_",
                              "H", "o", "r", "d", "e" >>
    /\ normalized_subnet_identifier = s_computehorde

t_command_prefix == << "C", "o", "m", "m", "a", "n", "d", ":", " " >>

\* the files the archive is to hold for a command list
ExpectedArchive(commands) ==
    [i \in 1..Len(commands) |->
        t_command_prefix \o commands[i].text \o << "\n" >> \o commands[i].stdout]

\* C7: for a command list c_1..c_n, n >= 1, the run leaves one archive of n text
\* files in list order, the i-th being "Command: c_i" and the output of c_i.
C7_ArchiveHoldsOneFilePerCommand ==
    (CommandRunEnded /\ server.get_status = 200 /\ server.commands # << >>)
    => archive = Some(ExpectedArchive(server.commands))

\* C8: a configuration error (CONFIG_DIR unset or empty; the config file, when it
\* has to be read, missing, malformed or lacking a required key) ends main with an
\* exception before any config file is written, any command is run or any HTTP
\* request is sent.
C8_ConfigErrorBeforeAnyEffect ==
    (/\ outcome = "raised"
     /\ pc \in {"main", "update", "resolve"}
     /\ exc \in {"RuntimeError", "FileNotFoundError", "KeyError"})
    => configWrites = 0 /\ sent = << >> /\ executed = << >>

\* what the claim has printed for a status
ExpectedReport(status) ==
    CASE status = 201 -> "uploaded_and_created"
      [] status = 200 -> "request_succeeded"
      [] OTHER -> "failed_to_upload"

\* C9: send_to_autovalidator issues one POST to {address}/api/v1/files/ and never
\* a second; whatever status the response has, it is reported (201 success, 200
\* soft success, anything else a failure) and the run ends, returning.
C9_OnePostReportedOnce ==
    /\ Len(sent) <= 1
    /\ \A i \in 1..Len(sent) :
          sent[i].method = t_POST /\ sent[i].url = autovalidator_address \o t_files_path
    /\ response # NoResponse
       => /\ Len(sent) = 1
          /\ pc \in {"send_report", "done"}
          /\ pc = "done" => /\ outcome = "returned"
                            /\ printed = << ExpectedReport(response.status_code) >>

C9_Witness ==
    /\ pc = "done" /\ outcome = "returned"
    /\ response.status_code = 500
    /\ Len(sent) = 1
    /\ printed = << "failed_to_upload" >>

\* C10: every command of a non-empty list is executed once, in list order, a
\* failing command included, before the archive and the upload.
C10_EachCommandExecutedInOrder ==
    (CommandRunEnded /\ server.get_status = 200 /\ server.commands # << >>)
    => /\ executed = [i \in 1..Len(server.commands) |-> server.commands[i].text]
       /\ \E i \in 1..Len(sent) : sent[i].method = t_POST

====
